---- MODULE Spec2Model ----
(***************************************************************************)
(* Two-pass label/reference resolver of mdxrp (src/mdxrp/processor.py).    *)
(*                                                                         *)
(* A line of text is a sequence of one-character strings, so that the      *)
(* regular expressions of the program are modelled by what they match.     *)
(* Positions are 1-based; Python's position 0 is position 1 here.          *)
(***************************************************************************)
EXTENDS Integers, Sequences, FiniteSets, TLC

(***************************************************************************)
(* Character classes of Python's re module, restricted to the characters   *)
(* that occur in the model's documents and in the inserted numerals.       *)
(***************************************************************************)
Digits == <<"0", "1", "2", "3", "4", "5", "6", "7", "8", "9">>

\* [a-zA-Z0-9_]
TokenChars == {"a", "b", "_"} \cup {Digits[d] : d \in 1..10}

\* \w on str patterns is Unicode-aware: it also matches non-ASCII letters.
\* "U+00E9" stands for the one-character string made of that code point.
WordChars == TokenChars \cup {"U+00E9"}

\* \s
SpaceChars == {" ", "\t", "\n"}

\* the index just past the longest run of cls characters that starts at i
RunEnd(s, i, cls) ==
  CHOOSE j \in i..(Len(s) + 1) :
    /\ \A k \in i..(j - 1) : s[k] \in cls
    /\ (j = Len(s) + 1 \/ s[j] \notin cls)

\* str(n) for n >= 0
RECURSIVE ToStr(_)
ToStr(n) == IF n < 10 THEN <<Digits[n + 1]>>
            ELSE ToStr(n \div 10) \o <<Digits[(n % 10) + 1]>>

\* LJust that forgets the padding
LJust_NoPad(s, w) == s

Range(f) == {f[x] : x \in DOMAIN f}

\* s.ljust(w)
LJust(s, w) == IF Len(s) >= w THEN s ELSE s \o [k \in 1..(w - Len(s)) |-> " "]

\* s[i:e] of Python with the 1-based, end-exclusive positions of this module
Slice(s, i, e) == SubSeq(s, i, e - 1)

NoMatch == [end |-> 0, key |-> <<>>, group |-> <<>>]

(***************************************************************************)
(* The four patterns.  Each operator answers for one start position i: the *)
(* match of the pattern that begins at i, or NoMatch.                      *)
(***************************************************************************)

\* @([a-zA-Z0-9_]+):([a-zA-Z0-9_]+)
GroupedLabelAt(s, i) ==
  IF s[i] # "@" THEN NoMatch
  ELSE LET e1 == RunEnd(s, i + 1, TokenChars) IN
       IF e1 = i + 1 \/ e1 > Len(s) \/ s[e1] # ":" THEN NoMatch
       ELSE LET e2 == RunEnd(s, e1 + 1, TokenChars) IN
            IF e2 = e1 + 1 THEN NoMatch
            ELSE [end |-> e2,
                  key |-> Slice(s, i + 1, e2),       \* f"{group}:{label}"
                  group |-> Slice(s, i + 1, e1)]

\* CollectGlobalAt without the lookahead (?!:[a-zA-Z0-9_])
CollectGlobalAt_NoLookahead(s, i) ==
  IF s[i] # "@" THEN NoMatch
  ELSE LET e == RunEnd(s, i + 1, TokenChars) IN
       IF e = i + 1 THEN NoMatch
       ELSE IF e <= Len(s) /\ s[e] \in WordChars THEN NoMatch
       ELSE [end |-> e, key |-> Slice(s, i + 1, e), group |-> <<>>]

\* @([a-zA-Z0-9_]+)(?!:[a-zA-Z0-9_])\b   (the pattern of collect_labels)
\* A shorter label than the longest run never matches: \b fails between two
\* word characters.
CollectGlobalAt(s, i) ==
  IF s[i] # "@" THEN NoMatch
  ELSE LET e == RunEnd(s, i + 1, TokenChars) IN
       IF e = i + 1 THEN NoMatch
       ELSE IF e + 1 <= Len(s) /\ s[e] = ":" /\ s[e + 1] \in TokenChars THEN NoMatch
       ELSE IF e <= Len(s) /\ s[e] \in WordChars THEN NoMatch
       ELSE [end |-> e, key |-> Slice(s, i + 1, e), group |-> <<>>]

\* @([a-zA-Z0-9_]+)   (the pattern of replace)
ReplaceGlobalAt(s, i) ==
  IF s[i] # "@" THEN NoMatch
  ELSE LET e == RunEnd(s, i + 1, TokenChars) IN
       IF e = i + 1 THEN NoMatch
       ELSE [end |-> e, key |-> Slice(s, i + 1, e), group |-> <<>>]

\* ReferenceAt without the lookbehind (?<!^)
ReferenceAt_NoLookbehind(s, i) ==
  IF s[i] # "#" THEN NoMatch
  ELSE LET e1 == RunEnd(s, i + 1, WordChars) IN
       IF e1 = i + 1 THEN NoMatch
       ELSE LET e2 == IF e1 <= Len(s) /\ s[e1] = ":"
                      THEN RunEnd(s, e1 + 1, WordChars) ELSE e1 IN
            IF e2 > e1 + 1
            THEN [end |-> e2, key |-> Slice(s, i + 1, e2),
                  group |-> Slice(s, i + 1, e1)]
            ELSE [end |-> e1, key |-> Slice(s, i + 1, e1),
                  group |-> <<>>]

\* (?<!^)#(\w+):(\w+)|(?<!^)#(\w+)
\* ^ without re.MULTILINE matches at the start of the string only.
ReferenceAt(s, i) ==
  IF i = 1 \/ s[i] # "#" THEN NoMatch
  ELSE LET e1 == RunEnd(s, i + 1, WordChars) IN
       IF e1 = i + 1 THEN NoMatch
       ELSE LET e2 == IF e1 <= Len(s) /\ s[e1] = ":"
                      THEN RunEnd(s, e1 + 1, WordChars) ELSE e1 IN
            IF e2 > e1 + 1
            THEN [end |-> e2, key |-> Slice(s, i + 1, e2),   \* f"{group}:{label}"
                  group |-> Slice(s, i + 1, e1)]
            ELSE [end |-> e1, key |-> Slice(s, i + 1, e1),   \* global_label
                  group |-> <<>>]

MatchAt(kind, s, i) ==
  CASE kind = "grouped" -> GroupedLabelAt(s, i)
    [] kind = "collect_global" -> CollectGlobalAt(s, i)
    [] kind = "global" -> ReplaceGlobalAt(s, i)
    [] kind = "reference" -> ReferenceAt(s, i)

\* re.finditer(pattern, s): the matches from left to right, not overlapping,
\* each with its start position
RECURSIVE FindFrom(_, _, _)
FindNext(kind, s, i, m) ==
  IF m.end = 0 THEN FindFrom(kind, s, i + 1)
  ELSE <<[at |-> i, end |-> m.end, key |-> m.key, group |-> m.group]>>
       \o FindFrom(kind, s, m.end)

FindFrom(kind, s, i) ==
  IF i > Len(s) THEN <<>> ELSE FindNext(kind, s, i, MatchAt(kind, s, i))

FindIter(kind, s) == FindFrom(kind, s, 1)

\* InsideTable with the pattern ^\s*\|.*\|\s*$, which asks for nothing
\* between the bars
InsideTable_AnyInner(s) ==
  \E p \in 1..Len(s) : \E r \in (p + 1)..Len(s) :
    /\ \A k \in 1..(p - 1) : s[k] \in SpaceChars
    /\ s[p] = "|"
    /\ s[r] = "|"
    /\ \A k \in (p + 1)..(r - 1) : s[k] # "\n"
    /\ \A k \in (r + 1)..Len(s) : s[k] \in SpaceChars

\* re.match(r"^\s*\|.*\S.*\|\s*$", s) is not None
\* "." matches any character but a newline; "$" matches at the end and just
\* before a final newline.
InsideTable(s) ==
  \E p \in 1..Len(s) : \E q \in (p + 1)..Len(s) : \E r \in (q + 1)..Len(s) :
    /\ \A k \in 1..(p - 1) : s[k] \in SpaceChars
    /\ s[p] = "|"
    /\ s[q] \notin SpaceChars
    /\ s[r] = "|"
    /\ \A k \in (p + 1)..(r - 1) : s[k] # "\n"
    /\ \A k \in (r + 1)..Len(s) : s[k] \in SpaceChars

(***************************************************************************)
(* MarkdownProcessor: the registry and the two passes.                     *)
(* A registry value is [label_map, group_counters, global_counter].        *)
(* label_map and group_counters are functions whose domain is the set of   *)
(* keys of the Python dict.                                                *)
(***************************************************************************)
EmptyDict == [k \in {} |-> <<>>]

\* the state that reset() sets
ResetRegistry == [label_map |-> EmptyDict, group_counters |-> EmptyDict,
                  global_counter |-> 1]

\* DeclareGrouped numbering from the counter of the bare labels
DeclareGrouped_SharedCounter(reg, m) ==
  IF m.key \in DOMAIN reg.label_map THEN reg
  ELSE [reg EXCEPT !.label_map = (m.key :> ToStr(reg.global_counter)) @@ @,
                   !.group_counters = (m.group :> reg.global_counter + 1) @@ @,
                   !.global_counter = @ + 1]

\* body of the first loop of collect_labels for one match
DeclareGrouped(reg, m) ==
  IF m.key \in DOMAIN reg.label_map THEN reg
  ELSE LET gc == IF m.group \in DOMAIN reg.group_counters
                 THEN reg.group_counters
                 ELSE (m.group :> 1) @@ reg.group_counters
       IN [reg EXCEPT !.label_map = (m.key :> ToStr(gc[m.group])) @@ @,
                      !.group_counters = [gc EXCEPT ![m.group] = @ + 1]]

\* DeclareGlobal without the test "label not in self.label_map"
DeclareGlobal_Reassign(reg, m) ==
  [reg EXCEPT !.label_map = [k \in DOMAIN @ \cup {m.key} |->
                               IF k = m.key THEN ToStr(reg.global_counter) ELSE @[k]],
              !.global_counter = @ + 1]

\* DeclareGlobal incrementing the counter before it reads it
DeclareGlobal_IncrementFirst(reg, m) ==
  IF m.key \in DOMAIN reg.label_map THEN reg
  ELSE [reg EXCEPT !.label_map = (m.key :> ToStr(reg.global_counter + 1)) @@ @,
                   !.global_counter = @ + 1]

\* body of the second loop of collect_labels for one match
DeclareGlobal(reg, m) ==
  IF m.key \in DOMAIN reg.label_map THEN reg
  ELSE [reg EXCEPT !.label_map = (m.key :> ToStr(reg.global_counter)) @@ @,
                   !.global_counter = @ + 1]

RECURSIVE DeclareAll(_, _, _, _)
DeclareAll(kind, reg, ms, n) ==
  IF n > Len(ms) THEN reg
  ELSE DeclareAll(kind,
                  IF kind = "grouped" THEN DeclareGrouped(reg, ms[n])
                                      ELSE DeclareGlobal(reg, ms[n]),
                  ms, n + 1)

\* one iteration of the line loop of collect_labels
CollectLine(reg, markdown_text) ==
  LET r1 == DeclareAll("grouped", reg, FindIter("grouped", markdown_text), 1)
  IN DeclareAll("collect_global", r1, FindIter("collect_global", markdown_text), 1)

\* collect_labels(markdown_lines)
RECURSIVE collect_labels(_, _)
collect_labels(reg, markdown_lines) ==
  IF markdown_lines = <<>> THEN reg
  ELSE collect_labels(CollectLine(reg, Head(markdown_lines)), Tail(markdown_lines))

(***************************************************************************)
(* replace.  ctx is what the three callbacks close over:                   *)
(* [label_map, inside_table, line_num].                                    *)
(* Each callback answers [repl, found]: the replacement text, and whether  *)
(* the key was in label_map.                                               *)
(***************************************************************************)
replace_grouped_label(ctx, matched, m) ==
  LET found == m.key \in DOMAIN ctx.label_map
      label_number == IF found THEN ctx.label_map[m.key] ELSE matched
  IN [repl |-> IF ctx.inside_table THEN LJust(label_number, Len(matched))
                                   ELSE label_number,
      found |-> found]

replace_global_label(ctx, matched, m) ==
  LET found == m.key \in DOMAIN ctx.label_map
      label_number == IF found THEN ctx.label_map[m.key] ELSE matched
  IN [repl |-> IF ctx.inside_table THEN LJust(label_number, Len(matched))
                                   ELSE label_number,
      found |-> found]

replace_reference(ctx, matched, m) ==
  IF m.key \in DOMAIN ctx.label_map
  THEN LET replacement == ctx.label_map[m.key]
       IN [repl |-> IF ctx.inside_table THEN LJust(replacement, Len(matched))
                                        ELSE replacement,
           found |-> TRUE]
  ELSE [repl |-> matched, found |-> FALSE]

Callback(kind, ctx, matched, m) ==
  CASE kind = "grouped" -> replace_grouped_label(ctx, matched, m)
    [] kind = "global" -> replace_global_label(ctx, matched, m)
    [] kind = "reference" -> replace_reference(ctx, matched, m)

\* re.sub(pattern, callback, s).  acc = [text, events, missing]: the text
\* built so far, one event per callback invocation (start position in s,
\* matched text, key, found, replacement), and the entries the reference
\* callback appended to missing_references.
RECURSIVE SubFrom(_, _, _, _, _)
\* the match m at i was handed to the callback, which answered r
SubEmit(kind, s, i, ctx, acc, m, matched, r) ==
  SubFrom(kind, s, m.end, ctx,
    [text |-> acc.text \o r.repl,
     events |-> Append(acc.events,
                  [kind |-> kind, at |-> i, matched |-> matched,
                   key |-> m.key, found |-> r.found, repl |-> r.repl]),
     missing |-> IF kind = "reference" /\ ~r.found
                 THEN Append(acc.missing, <<ctx.line_num, m.key>>)
                 ELSE acc.missing])

SubMatched(kind, s, i, ctx, acc, m, matched) ==
  SubEmit(kind, s, i, ctx, acc, m, matched, Callback(kind, ctx, matched, m))

SubNext(kind, s, i, ctx, acc, m) ==
  IF m.end = 0
  THEN SubFrom(kind, s, i + 1, ctx, [acc EXCEPT !.text = Append(@, s[i])])
  ELSE SubMatched(kind, s, i, ctx, acc, m, Slice(s, i, m.end))

SubFrom(kind, s, i, ctx, acc) ==
  IF i > Len(s) THEN acc ELSE SubNext(kind, s, i, ctx, acc, MatchAt(kind, s, i))

Sub(kind, s, ctx) == SubFrom(kind, s, 1, ctx, [text |-> <<>>, events |-> <<>>, missing |-> <<>>])

\* one iteration of the line loop of replace, line_num already incremented
\* s1, s2, s3: the results of the three re.sub calls
LineRecord(ctx, markdown_text, s1, s2, s3) ==
  [line_num |-> ctx.line_num, input |-> markdown_text,
   inside_table |-> ctx.inside_table,
   grouped |-> s1.events, global |-> s2.events, reference |-> s3.events,
   after_global |-> s2.text,
   output |-> s3.text, missing |-> s3.missing]

ReferenceSweep(ctx, markdown_text, s1, s2) ==
  LineRecord(ctx, markdown_text, s1, s2, Sub("reference", s2.text, ctx))

GlobalSweep(ctx, markdown_text, s1) ==
  ReferenceSweep(ctx, markdown_text, s1, Sub("global", s1.text, ctx))

GroupedSweep(ctx, markdown_text) ==
  GlobalSweep(ctx, markdown_text, Sub("grouped", markdown_text, ctx))

ReplaceLine(label_map, line_num, markdown_text) ==
  GroupedSweep([label_map |-> label_map,
                inside_table |-> InsideTable(markdown_text),
                line_num |-> line_num],
               markdown_text)

\* the line loop of replace: one record per line
RECURSIVE ReplaceLoop(_, _, _)
ReplaceLoop(label_map, line_num, markdown_lines) ==
  IF markdown_lines = <<>> THEN <<>>
  ELSE <<ReplaceLine(label_map, line_num + 1, Head(markdown_lines))>>
       \o ReplaceLoop(label_map, line_num + 1, Tail(markdown_lines))

RECURSIVE Concat(_)
Concat(ss) == IF ss = <<>> THEN <<>> ELSE Head(ss) \o Concat(Tail(ss))

\* ReplaceResult with the processed lines returned last line first
ReplaceResult_Reversed(line_num, recs, missing_references) ==
  [line_num |-> line_num + Len(recs),
   final_lines |-> [k \in 1..Len(recs) |-> recs[Len(recs) + 1 - k].output],
   missing_references |-> missing_references,
   raised |-> missing_references # <<>>,
   recs |-> recs]

\* replace(markdown_lines): raised is TRUE when UndefinedReferenceError is
\* raised, and then missing_references is what the message enumerates
ReplaceResult(line_num, recs, missing_references) ==
  [line_num |-> line_num + Len(recs),
   final_lines |-> [k \in 1..Len(recs) |-> recs[k].output],
   missing_references |-> missing_references,
   raised |-> missing_references # <<>>,
   recs |-> recs]

ReplaceEnd(line_num, recs) ==
  ReplaceResult(line_num, recs, Concat([k \in 1..Len(recs) |-> recs[k].missing]))

replace(label_map, line_num, markdown_lines) ==
  ReplaceEnd(line_num, ReplaceLoop(label_map, line_num, markdown_lines))

(***************************************************************************)
(* Notebook cells (process_notebook).  A cell is [cell_type, source]; the  *)
(* source is [form |-> "list", value |-> a sequence of strings] or         *)
(* [form |-> "str", value |-> one string].                                 *)
(***************************************************************************)

\* x.rstrip("\n")
RECURSIVE RStripNewlines(_)
RStripNewlines(x) ==
  IF x # <<>> /\ x[Len(x)] = "\n" THEN RStripNewlines(SubSeq(x, 1, Len(x) - 1)) ELSE x

\* text.splitlines(), for texts whose only line boundary is "\n"
\* the position of the first "\n" of text at or after i, Len(text) + 1 if none
LineEnd(text, i) ==
  CHOOSE e \in i..(Len(text) + 1) :
    /\ e = Len(text) + 1 \/ text[e] = "\n"
    /\ \A k \in i..(e - 1) : text[k] # "\n"

RECURSIVE SplitFrom(_, _)
SplitTo(text, i, e) == <<Slice(text, i, e)>> \o SplitFrom(text, e + 1)

SplitFrom(text, i) ==
  IF i > Len(text) THEN <<>> ELSE SplitTo(text, i, LineEnd(text, i))

SplitLines(text) == SplitFrom(text, 1)

\* "\n".join(lines)
RECURSIVE JoinLines(_)
JoinLines(lines) ==
  IF lines = <<>> THEN <<>>
  ELSE IF Len(lines) = 1 THEN lines[1]
  ELSE lines[1] \o <<"\n">> \o JoinLines(Tail(lines))

extract_lines(cell) ==
  IF cell.source.form = "list"
  THEN [k \in 1..Len(cell.source.value) |-> RStripNewlines(cell.source.value[k])]
  ELSE SplitLines(cell.source.value)

\* processed_lines[-1] of an empty list raises IndexError
SetCellSourceRaises(cell, processed_lines) ==
  cell.source.form = "list" /\ processed_lines = <<>>

set_cell_source(cell, processed_lines) ==
  IF cell.source.form = "list"
  THEN [cell EXCEPT !.source.value =
          [k \in 1..Len(processed_lines) |->
             IF k < Len(processed_lines) THEN Append(processed_lines[k], "\n")
                                         ELSE processed_lines[k]]]
  ELSE [cell EXCEPT !.source.value = JoinLines(processed_lines)]

(***************************************************************************)
(* The documents of the model.                                             *)
(***************************************************************************)
\* the characters of the lines that are enumerated exhaustively
Alphabet == {"a", "@", "#", ":", " ", "|"}

\* the longest line that is enumerated exhaustively
MaxLineLen == 4

\* a notebook has at most MaxItems cells and lines altogether
MaxItems == 4

RECURSIVE Strings(_)
Strings(n) ==
  IF n = 0 THEN {<<>>}
  ELSE LET P == Strings(n - 1) IN P \cup {Append(x, c) : x \in P, c \in Alphabet}

\* the lines of the documents that have several lines or several cells
UnitLines ==
  { <<"@", "a">>,                              \* @a
    <<"@", "b", " ", "@", "a", ":", "b">>,     \* @b @a:b
    <<"@", "b", ":", "a", "@", "a", ":", "a">>,\* @b:a@a:a
    <<" ", "#", "a", " ", "#", "a", ":", "b">>,\* _#a #a:b
    <<" ", "#", "a", "@", "b">>,               \* _#a@b
    <<"|", "@", "a", "1", "|", "#", "b", ":", "a", "|">> }  \* |@a1|#b:a|

CellKinds == { [cell_type |-> "markdown", form |-> "list"],
               [cell_type |-> "markdown", form |-> "str"],
               [cell_type |-> "code", form |-> "list"] }

\* the source of a cell of the given form that holds the given lines
SourceOf(form, lines) ==
  IF form = "list"
  THEN [form |-> "list",
        value |-> [k \in 1..Len(lines) |->
                     IF k < Len(lines) THEN Append(lines[k], "\n") ELSE lines[k]]]
  ELSE [form |-> "str", value |-> JoinLines(lines)]

\* cells under construction are [cell_type, form, lines]
RECURSIVE Drafts(_)
Drafts(n) ==
  IF n = 0 THEN {<<>>}
  ELSE LET P == Drafts(n - 1) IN
       P \cup {Append(nb, [cell_type |-> k.cell_type, form |-> k.form, lines |-> <<>>]) :
                 nb \in P, k \in CellKinds}
         \cup {[nb EXCEPT ![Len(nb)].lines = Append(@, l)] :
                 nb \in P \ {<<>>}, l \in UnitLines}

Notebook(draft) ==
  [k \in 1..Len(draft) |->
     [cell_type |-> draft[k].cell_type,
      source |-> SourceOf(draft[k].form, draft[k].lines)]]

OneLineNotebooks ==
  { <<[cell_type |-> "markdown", source |-> SourceOf("list", <<l>>)]>> :
      l \in Strings(MaxLineLen) }

\* notebooks of one markdown cell whose source ends with a newline
FinalNewlineNotebooks ==
  { <<[cell_type |-> "markdown",
       source |-> [form |-> "list", value |-> << <<"a", "\n">> >>]]>>,
    <<[cell_type |-> "markdown",
       source |-> [form |-> "str", value |-> <<"a", "\n">>]]>> }

Notebooks ==
  {Notebook(d) : d \in Drafts(MaxItems)} \cup OneLineNotebooks
    \cup FinalNewlineNotebooks

\* file.readlines() of a file that holds the given lines and does not end
\* with a newline
ReadLines(lines) ==
  [k \in 1..Len(lines) |-> IF k < Len(lines) THEN Append(lines[k], "\n") ELSE lines[k]]

MdxFiles ==
  {<<l>> : l \in Strings(MaxLineLen)}
    \cup {ReadLines(d[1].lines) : d \in {x \in Drafts(MaxItems) : Len(x) = 1}}

(***************************************************************************)
(* State.                                                                  *)
(***************************************************************************)
VARIABLES
  mode,            \* "mdx": process_mdx_file runs; "notebook": process_notebook
  markdown_lines,  \* process_mdx_file: the lines read from the input file
  notebook_json,   \* process_notebook: the cells of the loaded notebook
  label_map,       \* MarkdownProcessor.label_map
  group_counters,  \* MarkdownProcessor.group_counters
  global_counter,  \* MarkdownProcessor.global_counter
  line_num,        \* MarkdownProcessor.line_num
  pc,              \* "collect", "replace", "write", "done", "failed", "crashed";
                   \* under cli.main also "invalid": ValueError was raised
  cell,            \* process_notebook: index of the cell the running loop is at
  processed_text,  \* process_mdx_file: the lines replace returned
  output_file,     \* <<>> while nothing was written, else <<what was written>>
  error,           \* the missing_references of the UndefinedReferenceError raised
  log,             \* history: one record per line the replace calls went through
  loaded,          \* history: the cells of the notebook as json.load returned them
  args,            \* cli.main: the parsed arguments; <<>> when main is not running
  exit_code,       \* cli.main: the exit status of the process, NotExited before
  calls            \* history: the method calls made on the processor by a caller
                   \* that drives it directly, [op, lines] each

\* what the callers of process_mdx_file and process_notebook hold
caller == <<args, exit_code, calls>>

vars == <<mode, markdown_lines, notebook_json, label_map, group_counters,
          global_counter, line_num, pc, cell, processed_text, output_file,
          error, log, loaded, caller>>

\* exit statuses are 0..255; the process has none while it runs
NotExited == -1

Registry == [label_map |-> label_map, group_counters |-> group_counters,
             global_counter |-> global_counter]

\* FreshProcessor with a counter that another instance may have advanced
FreshProcessor_SharedCounter ==
  /\ label_map = ResetRegistry.label_map
  /\ group_counters = ResetRegistry.group_counters
  /\ global_counter \in {ResetRegistry.global_counter, ResetRegistry.global_counter + 1}
  /\ line_num = 0

\* MarkdownProcessor(): __init__ calls reset
FreshProcessor ==
  /\ label_map = ResetRegistry.label_map
  /\ group_counters = ResetRegistry.group_counters
  /\ global_counter = ResetRegistry.global_counter
  /\ line_num = 0

InitRun ==
  /\ FreshProcessor
  /\ pc = "collect"
  /\ cell = 1
  /\ processed_text = <<>>
  /\ output_file = <<>>
  /\ error = <<>>
  /\ log = <<>>
  /\ exit_code = NotExited

\* process_mdx_file or process_notebook called directly
NoCaller ==
  /\ args = <<>>
  /\ calls = <<>>

Init ==
  /\ \/ mode = "mdx" /\ markdown_lines \in MdxFiles /\ notebook_json = <<>>
     \/ mode = "notebook" /\ notebook_json \in Notebooks /\ markdown_lines = <<>>
  /\ loaded = notebook_json
  /\ InitRun
  /\ NoCaller

SetRegistry(reg) ==
  /\ label_map' = reg.label_map
  /\ group_counters' = reg.group_counters
  /\ global_counter' = reg.global_counter

IsMarkdown(c) == c.cell_type = "markdown"

\* the records of a replace call, tagged with the cell they belong to
Tagged(recs, c) ==
  [k \in 1..Len(recs) |->
     [cell |-> c, line_num |-> recs[k].line_num, input |-> recs[k].input,
      inside_table |-> recs[k].inside_table, grouped |-> recs[k].grouped,
      global |-> recs[k].global, reference |-> recs[k].reference,
      after_global |-> recs[k].after_global,
      output |-> recs[k].output, missing |-> recs[k].missing]]

(***************************************************************************)
(* process_mdx_file                                                        *)
(***************************************************************************)
\* MdxCollect with a collect_labels that counts the lines it reads
MdxCollect_CountsLines ==
  /\ mode = "mdx" /\ pc = "collect"
  /\ SetRegistry(collect_labels(Registry, markdown_lines))
  /\ pc' = "replace"
  /\ line_num' = line_num + Len(markdown_lines)
  /\ UNCHANGED <<caller, mode, markdown_lines, notebook_json, cell,
                 processed_text, output_file, error, log, loaded>>

\* processor.collect_labels(markdown_lines)
MdxCollect ==
  /\ mode = "mdx" /\ pc = "collect"
  /\ SetRegistry(collect_labels(Registry, markdown_lines))
  /\ pc' = "replace"
  /\ UNCHANGED <<caller, mode, markdown_lines, notebook_json, line_num, cell,
                 processed_text, output_file, error, log, loaded>>

\* processed_text = processor.replace(markdown_lines)
\* MdxReplaced going on to write although replace raised
MdxReplaced_WritesAnyway(r) ==
  /\ line_num' = r.line_num
  /\ log' = log \o Tagged(r.recs, 1)
  /\ pc' = "write"
  /\ processed_text' = r.final_lines
  /\ error' = r.missing_references

MdxReplaced(r) ==
  /\ line_num' = r.line_num
  /\ log' = log \o Tagged(r.recs, 1)
  /\ IF r.raised
     THEN /\ pc' = "failed"
          /\ error' = r.missing_references
          /\ UNCHANGED processed_text
     ELSE /\ pc' = "write"
          /\ processed_text' = r.final_lines
          /\ UNCHANGED error

MdxReplace ==
  /\ mode = "mdx" /\ pc = "replace"
  /\ MdxReplaced(replace(label_map, line_num, markdown_lines))
  /\ UNCHANGED <<caller, mode, markdown_lines, notebook_json, label_map, group_counters,
                 global_counter, cell, output_file, loaded>>

\* open(output_file, "w") ... file.writelines(processed_text)
MdxWrite ==
  /\ mode = "mdx" /\ pc = "write"
  /\ output_file' = <<processed_text>>
  /\ pc' = "done"
  /\ UNCHANGED <<caller, mode, markdown_lines, notebook_json, label_map, group_counters,
                 global_counter, line_num, cell, processed_text, error, log, loaded>>

(***************************************************************************)
(* process_notebook                                                        *)
(***************************************************************************)
\* NbCollectCell with a registry that starts empty for each cell
NbCollectCell_ResetsPerCell ==
  /\ mode = "notebook" /\ pc = "collect" /\ cell <= Len(notebook_json)
  /\ IF IsMarkdown(notebook_json[cell])
     THEN SetRegistry(collect_labels(ResetRegistry, extract_lines(notebook_json[cell])))
     ELSE UNCHANGED <<label_map, group_counters, global_counter>>
  /\ cell' = cell + 1
  /\ UNCHANGED <<caller, mode, markdown_lines, notebook_json, line_num, pc,
                 processed_text, output_file, error, log, loaded>>

\* one iteration of the first loop
NbCollectCell ==
  /\ mode = "notebook" /\ pc = "collect" /\ cell <= Len(notebook_json)
  /\ IF IsMarkdown(notebook_json[cell])
     THEN SetRegistry(collect_labels(Registry, extract_lines(notebook_json[cell])))
     ELSE UNCHANGED <<label_map, group_counters, global_counter>>
  /\ cell' = cell + 1
  /\ UNCHANGED <<caller, mode, markdown_lines, notebook_json, line_num, pc,
                 processed_text, output_file, error, log, loaded>>

\* the first loop is over, the second starts
NbSecondPass ==
  /\ mode = "notebook" /\ pc = "collect" /\ cell > Len(notebook_json)
  /\ pc' = "replace"
  /\ cell' = 1
  /\ UNCHANGED <<caller, mode, markdown_lines, notebook_json, label_map, group_counters,
                 global_counter, line_num, processed_text, output_file, error, log, loaded>>

\* one iteration of the second loop
NbReplaced(r) ==
  /\ line_num' = r.line_num
  /\ log' = log \o Tagged(r.recs, cell)
  /\ IF r.raised
     THEN /\ pc' = "failed"
          /\ error' = r.missing_references
          /\ UNCHANGED <<notebook_json, cell>>
     ELSE IF SetCellSourceRaises(notebook_json[cell], r.final_lines)
     THEN /\ pc' = "crashed"
          /\ UNCHANGED <<notebook_json, cell, error>>
     ELSE /\ notebook_json' =
               [notebook_json EXCEPT ![cell] = set_cell_source(@, r.final_lines)]
          /\ cell' = cell + 1
          /\ UNCHANGED <<pc, error>>

\* NbReplaceCell with a line counter that restarts in every cell
NbReplaceCell_RestartsLines ==
  /\ mode = "notebook" /\ pc = "replace" /\ cell <= Len(notebook_json)
  /\ IF IsMarkdown(notebook_json[cell])
     THEN NbReplaced(replace(label_map, 0, extract_lines(notebook_json[cell])))
     ELSE /\ cell' = cell + 1
          /\ UNCHANGED <<notebook_json, line_num, log, pc, error>>
  /\ UNCHANGED <<caller, mode, markdown_lines, label_map, group_counters, global_counter,
                 processed_text, output_file, loaded>>

NbReplaceCell ==
  /\ mode = "notebook" /\ pc = "replace" /\ cell <= Len(notebook_json)
  /\ IF IsMarkdown(notebook_json[cell])
     THEN NbReplaced(replace(label_map, line_num, extract_lines(notebook_json[cell])))
     ELSE /\ cell' = cell + 1
          /\ UNCHANGED <<notebook_json, line_num, log, pc, error>>
  /\ UNCHANGED <<caller, mode, markdown_lines, label_map, group_counters, global_counter,
                 processed_text, output_file, loaded>>

\* json.dump(notebook_json, file, indent=2)
NbWrite ==
  /\ mode = "notebook" /\ pc = "replace" /\ cell > Len(notebook_json)
  /\ output_file' = <<notebook_json>>
  /\ pc' = "done"
  /\ UNCHANGED <<caller, mode, markdown_lines, notebook_json, label_map, group_counters,
                 global_counter, line_num, cell, processed_text, error, log, loaded>>

Next ==
  \/ MdxCollect
  \/ MdxReplace
  \/ MdxWrite
  \/ NbCollectCell
  \/ NbSecondPass
  \/ NbReplaceCell
  \/ NbWrite

Spec == Init /\ [][Next]_vars

(***************************************************************************)
(* Notebooks with many labels: n bare labels @a1 .. @an, five to a cell,   *)
(* followed by a cell that holds one more line; a bare label that line     *)
(* declares gets the number n + 1.                                         *)
(***************************************************************************)
MaxLabels == 100

\* "@a<from> @a<from+1> ... @a<to> "
WideLine(from, to) ==
  Concat([k \in 1..(to - from + 1) |-> <<"@", "a">> \o ToStr(from + k - 1) \o <<" ">>])

WideRows ==
  { <<"|", "@", "b", "|">>,                                  \* |@b|
    <<"|", "@", "b", "|", "#", "b", "|">>,                   \* |@b|#b|
    <<"|", " ", "@", "b", " ", "|", " ", "#", "a", "1", " ", "|">>,  \* | @b | #a1 |
    <<"|", "@", "b", ":", "a", "|", "#", "b", ":", "a", "|", "@", "b", "|">>,  \* |@b:a|#b:a|@b|
    <<"|", " ", "#", "b", "|">>,                             \* | #b|
    <<"@", "b", " ", "#", "b">>,                             \* @b #b
    <<"@", "b", ":", "a", " ", "#", "b", ":", "a", " ", "|">>,  \* @b:a #b:a |
    <<" ", "|", "@", "b", "|", " ", "\t">> }                 \* _|@b|_<tab>

WideNotebook(n, row, form) ==
  [j \in 1..((n + 4) \div 5) |->
     [cell_type |-> "markdown",
      source |-> SourceOf(form, <<WideLine(5 * (j - 1) + 1,
                                           IF 5 * j <= n THEN 5 * j ELSE n)>>)]]
    \o <<[cell_type |-> "markdown", source |-> SourceOf(form, <<row>>)]>>

WideNotebooks ==
  {WideNotebook(n, row, form) :
     n \in 0..MaxLabels, row \in WideRows, form \in {"list", "str"}}

InitWide ==
  /\ mode = "notebook"
  /\ notebook_json \in WideNotebooks
  /\ markdown_lines = <<>>
  /\ loaded = notebook_json
  /\ InitRun
  /\ NoCaller

NextWide ==
  \/ NbCollectCell
  \/ NbSecondPass
  \/ NbReplaceCell
  \/ NbWrite

SpecWide == InitWide /\ [][NextWide]_vars

(***************************************************************************)
(* A caller that drives one MarkdownProcessor directly: reset,             *)
(* collect_labels, replace and process_markdown in any order, each on a    *)
(* document of its choice.  A caller that catches UndefinedReferenceError  *)
(* goes on with the same processor.                                        *)
(***************************************************************************)
MaxCalls == 2

ApiLines ==
  UnitLines \cup { <<"@", "a", "U+00E9">>,                \* @a followed by a word
                                                          \* character that is no
                                                          \* label character
                   <<" ", "#", "b", "@", "a">>,           \* _#b@a
                   <<"@", "a", "@", "b", ":", "a">> }     \* @a@b:a

ApiDocs ==
  {<<>>} \cup {<<l>> : l \in ApiLines}
         \cup { << <<"@", "a">>, <<" ", "#", "a", " ", "#", "a", ":", "b">> >>,
                << <<" ", "#", "a", " ", "#", "a", ":", "b">>, <<"@", "b">> >> }

InitApi ==
  /\ mode = "api"
  /\ markdown_lines = <<>>
  /\ notebook_json = <<>>
  /\ loaded = <<>>
  /\ InitRun
  /\ args = <<>>
  /\ calls = <<>>

\* the caller has the call in hand: no file, no notebook, no exit
ApiCall(op, lines) ==
  /\ mode = "api" /\ Len(calls) < MaxCalls
  /\ calls' = Append(calls, [op |-> op, lines |-> lines])
  /\ UNCHANGED <<mode, markdown_lines, notebook_json, loaded, pc, cell,
                 output_file, args, exit_code>>

\* what the caller gets from a call of replace: the lines, or the error
ApiReplaced(r) ==
  /\ line_num' = r.line_num
  /\ log' = Tagged(r.recs, Len(calls) + 1)
  /\ processed_text' = IF r.raised THEN <<>> ELSE r.final_lines
  /\ error' = IF r.raised THEN r.missing_references ELSE <<>>

\* processor.reset()
ApiReset ==
  /\ ApiCall("reset", <<>>)
  /\ SetRegistry(ResetRegistry)
  /\ line_num' = 0
  /\ UNCHANGED <<log, processed_text, error>>

\* ApiCollect with a collect_labels that begins by reset()
ApiCollect_ResetsFirst ==
  \E lines \in ApiDocs :
    /\ ApiCall("collect_labels", lines)
    /\ SetRegistry(collect_labels(ResetRegistry, lines))
    /\ UNCHANGED <<line_num, log, processed_text, error>>

\* processor.collect_labels(lines)
ApiCollect ==
  \E lines \in ApiDocs :
    /\ ApiCall("collect_labels", lines)
    /\ SetRegistry(collect_labels(Registry, lines))
    /\ UNCHANGED <<line_num, log, processed_text, error>>

\* ApiReplace with a replace that registers the keys it does not find
ApiReplace_RegistersMissing ==
  \E lines \in ApiDocs :
    /\ ApiCall("replace", lines)
    /\ ApiReplaced(replace(label_map, line_num, lines))
    /\ label_map' =
         [k \in DOMAIN label_map
                 \cup {x[2] : x \in Range(replace(label_map, line_num, lines).missing_references)} |->
            IF k \in DOMAIN label_map THEN label_map[k] ELSE <<"0">>]
    /\ UNCHANGED <<group_counters, global_counter>>

\* processor.replace(lines)
ApiReplace ==
  \E lines \in ApiDocs :
    /\ ApiCall("replace", lines)
    /\ ApiReplaced(replace(label_map, line_num, lines))
    /\ UNCHANGED <<label_map, group_counters, global_counter>>

\* processor.process_markdown(lines)
ApiProcessed(reg, lines) ==
  /\ SetRegistry(reg)
  /\ ApiReplaced(replace(reg.label_map, line_num, lines))

ApiProcessMarkdown ==
  \E lines \in ApiDocs :
    /\ ApiCall("process_markdown", lines)
    /\ ApiProcessed(collect_labels(Registry, lines), lines)

NextApi ==
  \/ ApiReset
  \/ ApiCollect
  \/ ApiReplace
  \/ ApiProcessMarkdown

SpecApi == InitApi /\ [][NextApi]_vars


(***************************************************************************)
(* The command line (cli.main).  A file name is [stem, suffix]: the name   *)
(* is stem followed by suffix, and a name whose stem is empty begins with  *)
(* its one dot.  The processing started by main is the processing of       *)
(* process_mdx_file and process_notebook above.                            *)
(***************************************************************************)
Suffixes == {".mdx", ".MDX", ".md", ".MD", ".ipynb", ".source"}

FileNames == [stem : {"", "x"}, suffix : Suffixes]

\* output_file when the optional argument is not given (default="")
NoOutput == [stem |-> "", suffix |-> ""]

\* ext.lower()
Lower(ext) ==
  CASE ext = ".MDX" -> ".mdx"
    [] ext = ".MD" -> ".md"
    [] OTHER -> ext

\* os.path.splitext(name)[1]: a leading dot does not begin an extension
SplitExt(name) == IF name.stem = "" THEN "" ELSE name.suffix

\* the extension of the output file main hands on: the argument, or
\* f"{base_name}.md" / f"{base_name}_processed{ext}"
OutputExt(a, default) ==
  IF a.output_file = NoOutput THEN default ELSE SplitExt(a.output_file)

\* process_mdx_file raises ValueError before it reads
MdxInvalid(a) ==
  \/ Lower(SplitExt(a.input_file)) # ".mdx"
  \/ Lower(OutputExt(a, ".md")) # ".md"

\* process_notebook raises ValueError before it reads
NotebookInvalid(a) ==
  \/ Lower(SplitExt(a.input_file)) \notin {".ipynb", ".source"}
  \/ Lower(SplitExt(a.input_file)) # Lower(OutputExt(a, SplitExt(a.input_file)))

\* the files of the command-line runs: a few lines of text, or a notebook
CliFiles == {<<>>} \cup {<<l>> : l \in UnitLines}

\* a notebook of a command-line run has at most MaxCliItems cells and lines
MaxCliItems == 2

CliNotebooks == {Notebook(d) : d \in Drafts(MaxCliItems)} \ {<<>>}

\* the input file holds a notebook; json.load raises JSONDecodeError, a
\* ValueError, on the text files
HoldsJson == notebook_json # <<>>

InitCli ==
  /\ mode = "cli"
  /\ args \in [input_file : FileNames, output_file : {NoOutput} \cup FileNames]
  /\ \/ markdown_lines \in CliFiles /\ notebook_json = <<>>
     \/ /\ args.input_file.suffix \in {".ipynb", ".source"}
        /\ notebook_json \in CliNotebooks /\ markdown_lines = <<>>
  /\ loaded = notebook_json
  /\ calls = <<>>
  /\ InitRun

\* main up to the first read: the dispatch on the name of the input file
\* and the validation of the extensions
CliMain ==
  /\ mode = "cli" /\ pc = "collect"
  /\ IF args.input_file.suffix = ".mdx"
     THEN IF MdxInvalid(args)
          THEN mode' = mode /\ pc' = "invalid"
          ELSE mode' = "mdx" /\ pc' = pc
     ELSE IF args.input_file.suffix \in {".ipynb", ".source"}
     THEN IF NotebookInvalid(args) \/ ~HoldsJson
          THEN mode' = mode /\ pc' = "invalid"
          ELSE mode' = "notebook" /\ pc' = pc
     ELSE mode' = mode /\ pc' = "invalid"
  /\ UNCHANGED <<markdown_lines, notebook_json, label_map, group_counters,
                 global_counter, line_num, cell, processed_text, output_file,
                 error, log, loaded, caller>>

\* the end of the process: main returns; except ValueError: sys.exit(1);
\* any other exception leaves main and the interpreter exits with status 1
CliExit ==
  /\ mode \in {"cli", "mdx", "notebook"} /\ args # <<>>
  /\ exit_code = NotExited
  /\ pc \in {"invalid", "done", "failed", "crashed"}
  /\ exit_code' = IF pc = "done" THEN 0 ELSE 1
  /\ UNCHANGED <<mode, markdown_lines, notebook_json, label_map, group_counters,
                 global_counter, line_num, pc, cell, processed_text, output_file,
                 error, log, loaded, args, calls>>

NextCli ==
  \/ CliMain
  \/ MdxCollect
  \/ MdxReplace
  \/ MdxWrite
  \/ NbCollectCell
  \/ NbSecondPass
  \/ NbReplaceCell
  \/ NbWrite
  \/ CliExit

SpecCli == InitCli /\ [][NextCli]_vars


(***************************************************************************)
(* The single-file variants (mdx.py, mdxrp.py): process_mdx_file with a    *)
(* collect_labels that registers and replaces the declarations at once and *)
(* a replace_references that replaces the references of the labelled       *)
(* lines.                                                                  *)
(***************************************************************************)
LegacyCtx(lm, table, ln) ==
  [label_map |-> lm, inside_table |-> table, line_num |-> ln]

\* the second re.sub of collect_labels: its callback registers the label of
\* each match, then answers its number
LegacyGlobalDeclared(reg, table, text) ==
  [reg |-> reg, text |-> Sub("global", text, LegacyCtx(reg.label_map, table, 0)).text]

LegacyGlobal(reg, table, text) ==
  LegacyGlobalDeclared(DeclareAll("global", reg, FindIter("global", text), 1),
                       table, text)

\* the first re.sub of collect_labels, with replace_named_label
LegacyGroupedDeclared(reg, table, text) ==
  LegacyGlobal(reg, table,
               Sub("grouped", text, LegacyCtx(reg.label_map, table, 0)).text)

\* one iteration of the line loop of collect_labels
LegacyCollectLine(reg, text) ==
  LegacyGroupedDeclared(DeclareAll("grouped", reg, FindIter("grouped", text), 1),
                        InsideTable(text), text)

\* collect_labels(markdown_lines): the registry and the labelled lines
RECURSIVE LegacyCollectLoop(_, _, _)
LegacyCollected(r, rest, labelled_lines) ==
  LegacyCollectLoop(r.reg, rest, Append(labelled_lines, r.text))

LegacyCollectLoop(reg, lines, labelled_lines) ==
  IF lines = <<>> THEN [reg |-> reg, labelled_lines |-> labelled_lines]
  ELSE LegacyCollected(LegacyCollectLine(reg, Head(lines)), Tail(lines), labelled_lines)

\* one iteration of the line loop of replace_references: re.sub is called
\* twice with the same callback, and the result of the first call is dropped
LegacyRefRecord(ctx, text, first, second) ==
  [line_num |-> ctx.line_num, input |-> text,
   inside_table |-> ctx.inside_table,
   grouped |-> <<>>, global |-> <<>>,
   reference |-> first.events \o second.events,
   after_global |-> text,
   output |-> second.text, missing |-> first.missing \o second.missing]

LegacyRefSubs(ctx, text) ==
  LegacyRefRecord(ctx, text, Sub("reference", text, ctx), Sub("reference", text, ctx))

RECURSIVE LegacyRefLoop(_, _, _)
LegacyRefLoop(lm, ln, lines) ==
  IF lines = <<>> THEN <<>>
  ELSE <<LegacyRefSubs(LegacyCtx(lm, InsideTable(Head(lines)), ln + 1), Head(lines))>>
       \o LegacyRefLoop(lm, ln + 1, Tail(lines))

\* replace_references(markdown_lines)
replace_references(lm, ln, lines) == ReplaceEnd(ln, LegacyRefLoop(lm, ln, lines))

\* the first line process_mdx_file writes
GeneratedBy == <<"<!-- Generated by mdx.py from input_file. -->", "\n">>

InitLegacy ==
  /\ mode = "legacy"
  /\ markdown_lines \in MdxFiles
  /\ notebook_json = <<>>
  /\ loaded = <<>>
  /\ InitRun
  /\ NoCaller

LegacyCollectedAll(r) ==
  /\ SetRegistry(r.reg)
  /\ processed_text' = r.labelled_lines

\* process_markdown: self.reset(); labelled_lines = self.collect_labels(...)
LegacyCollect ==
  /\ mode = "legacy" /\ pc = "collect"
  /\ LegacyCollectedAll(LegacyCollectLoop(ResetRegistry, markdown_lines, <<>>))
  /\ line_num' = 0
  /\ pc' = "replace"
  /\ UNCHANGED <<caller, mode, markdown_lines, notebook_json, cell, output_file,
                 error, log, loaded>>

\* process_markdown: return self.replace_references(labelled_lines)
LegacyReplaceReferences ==
  /\ mode = "legacy" /\ pc = "replace"
  /\ MdxReplaced(replace_references(label_map, line_num, processed_text))
  /\ UNCHANGED <<caller, mode, markdown_lines, notebook_json, label_map,
                 group_counters, global_counter, cell, output_file, loaded>>

\* file.write(f"<!-- Generated by ..."); file.writelines(processed_text)
LegacyWrite ==
  /\ mode = "legacy" /\ pc = "write"
  /\ output_file' = << <<GeneratedBy>> \o processed_text >>
  /\ pc' = "done"
  /\ UNCHANGED <<caller, mode, markdown_lines, notebook_json, label_map,
                 group_counters, global_counter, line_num, cell, processed_text,
                 error, log, loaded>>

NextLegacy ==
  \/ LegacyCollect
  \/ LegacyReplaceReferences
  \/ LegacyWrite

SpecLegacy == InitLegacy /\ [][NextLegacy]_vars

(***************************************************************************)
(* Vocabulary of the properties.                                           *)
(***************************************************************************)
Max(a, b) == IF a >= b THEN a ELSE b

RECURSIVE SumSeq(_)
SumSeq(ns) == IF ns = <<>> THEN 0 ELSE Head(ns) + SumSeq(Tail(ns))

\* the markdown cells of a notebook, by index
MarkdownCells(nb) == {j \in 1..Len(nb) : IsMarkdown(nb[j])}

\* the lines of the document, unit after unit, as the passes receive them
DocLines ==
  IF mode = "mdx" THEN markdown_lines
  ELSE Concat([j \in 1..Len(loaded) |->
                 IF IsMarkdown(loaded[j]) THEN extract_lines(loaded[j]) ELSE <<>>])

\* the reference occurrences of a line of the document: #group:label or
\* #label, not at column 0
ReferencesOf(line) == FindIter("reference", line)

\* the keys the declaration occurrences of the given lines declare
DeclaredKeys(lines) ==
  UNION {{m.key : m \in Range(FindIter("grouped", lines[k]))}
           \cup {m.key : m \in Range(FindIter("collect_global", lines[k]))} :
         k \in 1..Len(lines)}

\* where position p of a text is after a re.sub with the given events, for a
\* position outside every match
Moved(events, p) ==
  p + SumSeq([k \in 1..Len(events) |->
                IF events[k].at < p
                THEN Len(events[k].repl) - Len(events[k].matched) ELSE 0])

\* where position p of an input line is in the text the reference sweep reads
AfterDeclarations(rec, p) == Moved(rec.global, Moved(rec.grouped, p))

\* text is the numeral, followed by nothing but spaces
IsNumeralPadded(text, numeral) ==
  /\ Len(text) >= Len(numeral)
  /\ SubSeq(text, 1, Len(numeral)) = numeral
  /\ \A k \in (Len(numeral) + 1)..Len(text) : text[k] = " "

\* the reference occurrence o of the input line of rec was replaced by the
\* number of its key
ReplacedByNumber(rec, o) ==
  \E e \in Range(rec.reference) :
    /\ e.at = AfterDeclarations(rec, o.at)
    /\ e.key = o.key
    /\ e.found
    /\ IsNumeralPadded(e.repl, label_map[o.key])

(***************************************************************************)
(* C1.  After collect_labels over the whole document, replace substitutes  *)
(* every reference occurrence of the document whose key is declared        *)
(* anywhere in the document (earlier, same or later line) by the number of *)
(* that key, for every occurrence of a line.                               *)
(* Stated as the claim words it; the program violates it.                  *)
(***************************************************************************)
C1_DeclaredReferencesReplaced ==
  \A n \in 1..Len(log) :
    \A o \in Range(ReferencesOf(log[n].input)) :
      o.key \in DeclaredKeys(DocLines) => ReplacedByNumber(log[n], o)

(***************************************************************************)
(* C2.  process_notebook: when replace is called on any unit, the keys     *)
(* declared in every markdown unit are in the one shared registry, and a   *)
(* reference in unit i to a key declared only in another unit j is         *)
(* replaced by that key's number.                                          *)
(* Stated as the claim words it; the program violates it.                  *)
(***************************************************************************)
UnitLines_(j) == extract_lines(loaded[j])

C2_CollectAllBeforeReplace ==
  mode = "notebook" =>
    /\ log # <<>> =>
         \A j \in MarkdownCells(loaded) :
           DeclaredKeys(UnitLines_(j)) \subseteq DOMAIN label_map
    /\ \A n \in 1..Len(log) :
         \A o \in Range(ReferencesOf(log[n].input)) :
           ( /\ o.key \notin DeclaredKeys(UnitLines_(log[n].cell))
             /\ \E j \in MarkdownCells(loaded) \ {log[n].cell} :
                  o.key \in DeclaredKeys(UnitLines_(j)) )
           => ReplacedByNumber(log[n], o)

(***************************************************************************)
(* C3.  process_notebook: UndefinedReferenceError is raised only after the *)
(* substitution pass went through every line of every markdown unit, and   *)
(* it carries the (line, key) pair of every unresolved reference of all    *)
(* units.                                                                  *)
(* Stated as the claim words it; the program violates it.                  *)
(***************************************************************************)
C3_NotebookFailsAfterWholePass ==
  (mode = "notebook" /\ pc = "failed") =>
    /\ Len(log) = Len(DocLines)
    /\ \A n \in 1..Len(log) : log[n].input = DocLines[n]
    /\ error = Concat([n \in 1..Len(log) |-> log[n].missing])

(***************************************************************************)
(* C4.  replace on one line sequence (process_mdx_file) raises             *)
(* UndefinedReferenceError if and only if a reference occurrence of the    *)
(* sequence has a key that is not in the registry; it raises after the     *)
(* last line, and the error lists one (line, key) entry per such           *)
(* occurrence, in encounter order.                                         *)
(* Stated as the claim words it; the program violates it.                  *)
(***************************************************************************)
\* the (line, key) entries of the reference occurrences of the lines whose
\* key is not in the registry, in encounter order
UnresolvedOccurrences(lines) ==
  Concat([n \in 1..Len(lines) |->
            LET os == ReferencesOf(lines[n])
                un == SelectSeq(os, LAMBDA o : o.key \notin DOMAIN label_map)
            IN [k \in 1..Len(un) |-> <<n, un[k].key>>]])

C4_RaisesIffUnresolvedOccurrence ==
  (mode = "mdx" /\ pc \in {"write", "done", "failed"}) =>
    /\ Len(log) = Len(markdown_lines)
    /\ (pc = "failed") <=> (UnresolvedOccurrences(markdown_lines) # <<>>)
    /\ error = UnresolvedOccurrences(markdown_lines)

IsGroupedKey(k) == \E n \in 1..Len(k) : k[n] = ":"

GroupOfKey(k) == SubSeq(k, 1, (CHOOSE n \in 1..Len(k) : k[n] = ":") - 1)

\* group_counters.get(g, 1)
CounterOf(gc, g) == IF g \in DOMAIN gc THEN gc[g] ELSE 1

BareKeys(lm) == {k \in DOMAIN lm : ~IsGroupedKey(k)}

KeysOfGroup(lm, g) == {k \in DOMAIN lm : IsGroupedKey(k) /\ GroupOfKey(k) = g}

NumbersKept ==
  \A k \in DOMAIN label_map : k \in DOMAIN label_map' /\ label_map'[k] = label_map[k]

C6_RedeclarationIsNoOp ==
  [][ /\ NumbersKept
      /\ global_counter' = global_counter
           + Cardinality(BareKeys(label_map') \ BareKeys(label_map))
      /\ \A g \in DOMAIN group_counters' :
           group_counters'[g] = CounterOf(group_counters, g)
             + Cardinality(KeysOfGroup(label_map', g) \ KeysOfGroup(label_map, g))
    ]_vars

\* the declaration occurrences of a line, leftmost first
DeclarationsOf(line) ==
  LET at(p) == IF GroupedLabelAt(line, p).end # 0 THEN GroupedLabelAt(line, p)
               ELSE CollectGlobalAt(line, p)
      ps == SelectSeq([p \in 1..Len(line) |-> p], LAMBDA p : at(p).end # 0)
  IN [k \in 1..Len(ps) |-> [key |-> at(ps[k]).key, group |-> at(ps[k]).group,
                            grouped |-> GroupedLabelAt(line, ps[k]).end # 0]]

\* the declaration occurrences of a line sequence, in document order
DeclarationsIn(lines) == Concat([k \in 1..Len(lines) |-> DeclarationsOf(lines[k])])

\* collection is over, and some key was declared more than once
C6_Witness ==
  /\ pc = "replace"
  /\ Len(DeclarationsIn(DocLines)) > Cardinality(DOMAIN label_map)
  /\ \E k \in DOMAIN label_map : label_map[k] = <<"2">>

(***************************************************************************)
(* C7.  Grouped keys and bare keys never collide and the scopes are        *)
(* independent: a step that registers no new key of a group leaves that    *)
(* group's counter alone, a step that registers no new bare label leaves   *)
(* the global counter alone, no assigned number changes, every grouped     *)
(* declaration is registered under a grouped key and every bare one under  *)
(* a bare key, and the first key declared in each scope has number 1.      *)
(***************************************************************************)
\* the lines collect_labels has gone through
CollectedLines ==
  IF mode = "mdx" THEN (IF pc = "collect" THEN <<>> ELSE markdown_lines)
  ELSE Concat([j \in 1..Len(loaded) |->
                 IF IsMarkdown(loaded[j]) /\ (pc # "collect" \/ j < cell)
                 THEN extract_lines(loaded[j]) ELSE <<>>])

\* the keys of the scope of declaration d, in the order of their first
\* declaration in the given declarations
RECURSIVE FirstSeen(_, _)
FirstSeen(keys, seen) ==
  IF keys = <<>> THEN <<>>
  ELSE IF Head(keys) \in seen THEN FirstSeen(Tail(keys), seen)
  ELSE <<Head(keys)>> \o FirstSeen(Tail(keys), seen \cup {Head(keys)})

SameScope(d1, d2) == d1.grouped = d2.grouped /\ d1.group = d2.group

ScopeOrder(decls, d) ==
  LET mine == SelectSeq(decls, LAMBDA x : SameScope(x, d))
  IN FirstSeen([k \in 1..Len(mine) |-> mine[k].key], {})

FirstOfScopeIsOne ==
  LET decls == DeclarationsIn(CollectedLines) IN
  \A n \in 1..Len(decls) :
    /\ decls[n].key \in DOMAIN label_map
    /\ IsGroupedKey(decls[n].key) = decls[n].grouped
    /\ label_map[ScopeOrder(decls, decls[n])[1]] = <<"1">>

C7_ScopesIndependent ==
  /\ []FirstOfScopeIsOne
  /\ [][ /\ NumbersKept
         /\ \A g \in DOMAIN group_counters :
              KeysOfGroup(label_map', g) = KeysOfGroup(label_map, g)
                => (g \in DOMAIN group_counters' /\ group_counters'[g] = group_counters[g])
         /\ BareKeys(label_map') = BareKeys(label_map) => global_counter' = global_counter
       ]_vars

\* a bare label and two groups are registered, each scope with its own 1
C7_Witness ==
  /\ pc = "replace"
  /\ BareKeys(label_map) # {}
  /\ Cardinality(DOMAIN group_counters) >= 2
  /\ Cardinality({k \in DOMAIN label_map : label_map[k] = <<"1">>}) >= 3

(***************************************************************************)
(* C8.  In every registry state and for every scope (each group, the       *)
(* global scope), the numbers of the keys of the scope are 1..n in the     *)
(* order of the keys' first declaration in document order (lines in order, *)
(* leftmost first in a line), and the counter of the scope is n + 1.       *)
(***************************************************************************)
\* the registry reg numbers the declarations of the given lines in order
NumberedInOrder(reg, lines) ==
  LET decls == DeclarationsIn(lines) IN
  /\ DOMAIN reg.label_map = {decls[n].key : n \in 1..Len(decls)}
  /\ DOMAIN reg.group_counters = {decls[n].group : n \in {x \in 1..Len(decls) : decls[x].grouped}}
  /\ \A n \in 1..Len(decls) :
       LET ord == ScopeOrder(decls, decls[n]) IN
       /\ \A k \in 1..Len(ord) : reg.label_map[ord[k]] = ToStr(k)
       /\ IF decls[n].grouped
          THEN reg.group_counters[decls[n].group] = Len(ord) + 1
          ELSE reg.global_counter = Len(ord) + 1
  /\ (\A n \in 1..Len(decls) : decls[n].grouped) => reg.global_counter = 1

C8_NumbersAreOneToN ==
  /\ NumberedInOrder(Registry, CollectedLines)
  /\ \A n \in 0..Len(DocLines) :
       NumberedInOrder(collect_labels(ResetRegistry, SubSeq(DocLines, 1, n)),
                       SubSeq(DocLines, 1, n))

\* two keys of one group and two bare labels, and on some line a grouped
\* declaration to the right of a bare one
C8_Witness ==
  /\ pc = "replace"
  /\ global_counter >= 3
  /\ \E g \in DOMAIN group_counters : group_counters[g] >= 3
  /\ \E n \in 1..Len(DocLines) :
       LET ds == DeclarationsOf(DocLines[n]) IN
       \E x, y \in 1..Len(ds) : x < y /\ ~ds[x].grouped /\ ds[y].grouped

(***************************************************************************)
(* C9.  As the claim words it: in a line detected as a table row every     *)
(* replacement of a declaration or reference is the numeral followed by    *)
(* spaces and is exactly as wide as the text it replaces, so the output    *)
(* line is as long as the input line; in any other line the replacement    *)
(* is the bare numeral.                                                    *)
(* The program violates it once a numeral is wider than the text matched.  *)
(***************************************************************************)
\* the substitutions the three sweeps made in the line of rec
Substitutions(rec) ==
  SelectSeq(rec.grouped \o rec.global \o rec.reference, LAMBDA e : e.found)

C9_TableRowKeepsWidth ==
  \A n \in 1..Len(log) :
    LET rec == log[n]
        subs == Substitutions(rec) IN
    IF rec.inside_table
    THEN /\ \A k \in 1..Len(subs) :
              /\ IsNumeralPadded(subs[k].repl, label_map[subs[k].key])
              /\ Len(subs[k].repl) = Len(subs[k].matched)
         /\ Len(rec.output) = Len(rec.input)
    ELSE \A k \in 1..Len(subs) : subs[k].repl = label_map[subs[k].key]

(***************************************************************************)
(* C9, amended.  In a line detected as a table row every replacement is    *)
(* the numeral followed by spaces, as wide as the wider of the text it     *)
(* replaces and the numeral: padding never truncates.  The output line is  *)
(* longer than the input line by the total excess of the numerals over     *)
(* the texts they replace, so it has the input's length when every         *)
(* numeral fits.  In any other line the replacement is the bare numeral.   *)
(***************************************************************************)
Excess(e) == Max(0, Len(label_map[e.key]) - Len(e.matched))

C9_TableRowPadsToMatchWidth ==
  \A n \in 1..Len(log) :
    LET rec == log[n]
        subs == Substitutions(rec) IN
    IF rec.inside_table
    THEN /\ \A k \in 1..Len(subs) :
              /\ IsNumeralPadded(subs[k].repl, label_map[subs[k].key])
              /\ Len(subs[k].repl) =
                   Max(Len(subs[k].matched), Len(label_map[subs[k].key]))
         /\ Len(rec.output) =
              Len(rec.input) + SumSeq([k \in 1..Len(subs) |-> Excess(subs[k])])
    ELSE \A k \in 1..Len(subs) : subs[k].repl = label_map[subs[k].key]

\* a written document with a table row where one numeral was padded and
\* another was wider than the text it replaced
C9_Witness ==
  /\ pc = "done"
  /\ \E n \in 1..Len(log) :
       /\ log[n].inside_table
       /\ \E e1, e2 \in Range(Substitutions(log[n])) :
            /\ Len(e1.repl) > Len(label_map[e1.key])
            /\ Len(label_map[e2.key]) > Len(e2.matched)
       /\ Len(log[n].output) > Len(log[n].input)

(***************************************************************************)
(* C10.  A "#" that is the first character of a line is never treated as   *)
(* a reference, whatever the registry holds: it is neither substituted nor *)
(* recorded as unresolved; a "#" followed by a token at any other position *)
(* of the line is treated as a reference.                                  *)
(***************************************************************************)
C10_NoReferenceAtLineStart ==
  \A n \in 1..Len(log) :
    LET rec == log[n] IN
    /\ \A e \in Range(rec.reference) : e.at # 1
    /\ (rec.input # <<>> /\ rec.input[1] = "#") =>
         /\ rec.output # <<>> /\ rec.output[1] = "#"
         /\ \A x \in Range(rec.missing) :
              \E e \in Range(rec.reference) : e.at > 1 /\ e.key = x[2] /\ ~e.found
    /\ \A p \in 2..(Len(rec.input) - 1) :
         (rec.input[p] = "#" /\ rec.input[p + 1] \in TokenChars) =>
           \E e \in Range(rec.reference) : e.at = AfterDeclarations(rec, p)

\* a line that begins with "#" and a token which is a key of the registry
C10_Witness ==
  \E n \in 1..Len(log) :
    LET line == log[n].input IN
    /\ Len(line) >= 2 /\ line[1] = "#" /\ line[2] \in TokenChars
    /\ Slice(line, 2, RunEnd(line, 2, WordChars)) \in DOMAIN label_map
    /\ log[n].output[1] = "#"

(***************************************************************************)
(* C11.  The substitution pass never mutates the registry: every call of   *)
(* replace, on any lines (declarations or references whose key is not in   *)
(* the registry included) and also when it ends in failure, leaves         *)
(* label_map, group_counters and global_counter as they were; within       *)
(* process_markdown the registry after the call is the one the collection  *)
(* pass left.                                                              *)
(***************************************************************************)
\* the call a step of the direct caller makes
CallMade == calls'[Len(calls')]

ReplaceStep ==
  \/ mode = "api" /\ calls' # calls /\ CallMade.op = "replace"
  \/ mode # "api" /\ pc = "replace"

C11_ReplaceLeavesRegistry ==
  [][ /\ ReplaceStep => UNCHANGED <<label_map, group_counters, global_counter>>
      /\ (mode = "api" /\ calls' # calls /\ CallMade.op = "process_markdown")
           => Registry' = collect_labels(Registry, CallMade.lines)
    ]_vars

\* a replace call on a registry that holds keys has failed, on lines with a
\* declaration whose key is not in the registry
C11_Witness ==
  /\ mode = "api" /\ calls # <<>> /\ calls[Len(calls)].op = "replace"
  /\ error # <<>>
  /\ DOMAIN label_map # {}
  /\ \E n \in 1..Len(log) : \E e \in Range(log[n].global) : ~e.found

(***************************************************************************)
(* C12.  The collection pass changes only the registry: while the          *)
(* collection pass of process_mdx_file or process_notebook runs, no step   *)
(* changes the lines of the document or the line counter, and the line     *)
(* counter is 0 until the substitution pass starts.                        *)
(***************************************************************************)
C12_CollectChangesOnlyRegistry ==
  /\ [](pc = "collect" => (line_num = 0 /\ log = <<>>))
  /\ [][pc = "collect" =>
          UNCHANGED <<markdown_lines, notebook_json, line_num, processed_text>>]_vars

\* the collection pass is over, it registered keys, and nothing else moved yet
C12_Witness ==
  /\ pc = "replace" /\ log = <<>>
  /\ DOMAIN label_map # {} /\ DOMAIN group_counters # {} /\ global_counter > 1
  /\ line_num = 0
  /\ Len(DocLines) >= 2

(***************************************************************************)
(* C13.  On a fresh processor the k-th line the substitution pass visits,  *)
(* counted across all units in document order without restarting at a     *)
(* unit boundary, has line number k, and every unresolved reference found  *)
(* on it is recorded with position k, and reported with position k when    *)
(* the call that visited it fails.                                         *)
(***************************************************************************)
\* the (line, key) pairs of the references the sweep of rec did not find
UnresolvedOf(rec) ==
  LET es == SelectSeq(rec.reference, LAMBDA e : ~e.found)
  IN [k \in 1..Len(es) |-> <<rec.line_num, es[k].key>>]

C13_LineNumbersRunAcrossUnits ==
  /\ line_num = Len(log)
  /\ Len(log) <= Len(DocLines)
  /\ \A k \in 1..Len(log) :
       /\ log[k].input = DocLines[k]
       /\ log[k].line_num = k
       /\ log[k].missing = UnresolvedOf(log[k])
       /\ \A x \in Range(log[k].missing) : x[1] = k
  /\ pc = "failed" =>
       LET unit == log[Len(log)].cell
           ks == SelectSeq([k \in 1..Len(log) |-> k], LAMBDA k : log[k].cell = unit)
       IN error = Concat([j \in 1..Len(ks) |-> log[ks[j]].missing])

\* a notebook failed in a later unit: the position reported is counted from
\* the first line of the first unit
C13_Witness ==
  /\ mode = "notebook" /\ pc = "failed"
  /\ \E x \in Range(error) :
       /\ x[1] >= 2
       /\ log[x[1]].cell > log[1].cell

(***************************************************************************)
(* C14.  Each call of process_markdown is an isolated document run: it     *)
(* starts from an empty registry, counters at 1 and line counter 0, so     *)
(* whatever was called on the instance before, the call gives the numbers  *)
(* and reports the line numbers a freshly constructed processor gives.     *)
(* Stated as the claim words it; the program violates it.                  *)
(***************************************************************************)
\* process_markdown(lines) on a freshly constructed processor
FreshRun(lines) ==
  replace(collect_labels(ResetRegistry, lines).label_map, 0, lines)

C14_ProcessMarkdownIsolated ==
  (mode = "api" /\ calls # <<>> /\ calls[Len(calls)].op = "process_markdown") =>
    LET lines == calls[Len(calls)].lines
        fresh == FreshRun(lines) IN
    /\ Registry = collect_labels(ResetRegistry, lines)
    /\ line_num = Len(lines)
    /\ processed_text = (IF fresh.raised THEN <<>> ELSE fresh.final_lines)
    /\ error = (IF fresh.raised THEN fresh.missing_references ELSE <<>>)

(***************************************************************************)
(* C15.  Determinism: the outcome of a run of the two-pass processor from  *)
(* a fresh registry is a function of the document alone, so two runs on    *)
(* the same document end in the same outcome: the same output on success,  *)
(* the same list of unresolved (line, key) pairs on failure.               *)
(***************************************************************************)
\* the second loop of process_notebook from cell j on, as a function
RECURSIVE SecondPass(_, _, _, _)
SecondPass(nb, lm, j, ln) ==
  IF j > Len(nb) THEN [end |-> "done", value |-> nb]
  ELSE IF ~IsMarkdown(nb[j]) THEN SecondPass(nb, lm, j + 1, ln)
  ELSE LET r == replace(lm, ln, extract_lines(nb[j])) IN
       IF r.raised THEN [end |-> "failed", value |-> r.missing_references]
       ELSE IF SetCellSourceRaises(nb[j], r.final_lines)
       THEN [end |-> "crashed", value |-> <<>>]
       ELSE SecondPass([nb EXCEPT ![j] = set_cell_source(@, r.final_lines)],
                       lm, j + 1, r.line_num)

\* the outcome of a run on the document the state holds, as a function of
\* the document
OutcomeOf(m, lines, nb) ==
  IF m = "mdx"
  THEN LET r == FreshRun(lines) IN
       IF r.raised THEN [end |-> "failed", value |-> r.missing_references]
       ELSE [end |-> "done", value |-> r.final_lines]
  ELSE SecondPass(nb,
         collect_labels(ResetRegistry,
           Concat([j \in 1..Len(nb) |->
                     IF IsMarkdown(nb[j]) THEN extract_lines(nb[j]) ELSE <<>>])).label_map,
         1, 0)

C15_Deterministic ==
  pc \in {"done", "failed", "crashed"} =>
    [end |-> pc,
     value |-> IF pc = "done" THEN output_file[1] ELSE error]
      = OutcomeOf(mode, markdown_lines, loaded)

\* a notebook of several cells was written with a substitution made
C15_Witness ==
  /\ mode = "notebook" /\ pc = "done"
  /\ Len(loaded) >= 2
  /\ output_file[1] # loaded
  /\ DOMAIN label_map # {}

(***************************************************************************)
(* C16.  On success replace returns as many lines as it was given, in the  *)
(* same order, and output line i is what input line i alone gives with     *)
(* the registry: no other line, and no line number, takes part.            *)
(***************************************************************************)
\* what one line alone gives with the registry
AloneWith(lm, line) == ReplaceLine(lm, 0, line).output

C16_LineByLine ==
  /\ (mode = "mdx" /\ pc \in {"write", "done"}) =>
       /\ Len(processed_text) = Len(markdown_lines)
       /\ \A i \in 1..Len(markdown_lines) :
            processed_text[i] = AloneWith(label_map, markdown_lines[i])
  /\ (mode = "notebook" /\ pc = "done") =>
       /\ Len(notebook_json) = Len(loaded)
       /\ \A j \in 1..Len(loaded) :
            IsMarkdown(loaded[j]) =>
              LET lines == extract_lines(loaded[j]) IN
              notebook_json[j] =
                set_cell_source(loaded[j],
                  [i \in 1..Len(lines) |-> AloneWith(label_map, lines[i])])

\* a file of two lines was processed, and its two lines came out different
\* from each other and from the input
C16_Witness ==
  /\ mode = "mdx" /\ pc = "done"
  /\ Len(markdown_lines) >= 2
  /\ processed_text # markdown_lines
  /\ processed_text[1] # processed_text[2]

(***************************************************************************)
(* C17.  A reference occurrence whose key is not in the registry is left   *)
(* in the computed line as its original matched text, its (line number,    *)
(* key) pair is appended to the unresolved collection, and the resolvable  *)
(* occurrences of the same line and of the later lines of the sequence are *)
(* replaced by their numbers all the same.                                 *)
(* Stated as the claim words it; the program violates it.                  *)
(***************************************************************************)
\* the reference occurrence o of the input line of rec was left as it was
\* and recorded with the line number of rec
LeftAndRecorded(rec, o) ==
  /\ \E e \in Range(rec.reference) :
       /\ e.at = AfterDeclarations(rec, o.at)
       /\ e.key = o.key
       /\ ~e.found
       /\ e.matched = Slice(rec.input, o.at, o.end)
       /\ e.repl = Slice(rec.input, o.at, o.end)
  /\ \E k \in 1..Len(rec.missing) : rec.missing[k] = <<rec.line_num, o.key>>

C17_UnresolvedLeftOthersReplaced ==
  \A n \in 1..Len(log) :
    \A o \in Range(ReferencesOf(log[n].input)) :
      o.key \notin DOMAIN label_map =>
        /\ LeftAndRecorded(log[n], o)
        /\ \A n2 \in n..Len(log) :
             log[n2].cell = log[n].cell =>
               \A o2 \in Range(ReferencesOf(log[n2].input)) :
                 o2.key \in DOMAIN label_map => ReplacedByNumber(log[n2], o2)

(***************************************************************************)
(* C18.  The command-line entry point ends with exit code 0 on success,    *)
(* with a non-zero code on a validation error, and with a different        *)
(* non-zero code on an undefined-reference error.                          *)
(* Stated as the claim words it; the program violates it.                  *)
(***************************************************************************)
\* the exit code of a validation error
ValidationExit == 1

C18_ExitCodesDistinguish ==
  exit_code # NotExited =>
    /\ pc = "done" <=> exit_code = 0
    /\ pc = "invalid" => exit_code = ValidationExit
    /\ pc = "failed" => exit_code \notin {0, ValidationExit}

(***************************************************************************)
(* C19.  Grouped declarations take precedence over global ones: an         *)
(* occurrence @g:l registers the grouped key g:l and nothing else.  Every  *)
(* bare key of the registry comes from an occurrence @k that is not the    *)
(* head of a grouped occurrence, and the global counter counts the bare    *)
(* keys only.                                                              *)
(***************************************************************************)
\* position i of line s begins an occurrence @g:l
IsGroupedOccurrence(s, i) ==
  /\ s[i] = "@"
  /\ LET e == RunEnd(s, i + 1, TokenChars) IN
     /\ e > i + 1
     /\ e + 1 <= Len(s) /\ s[e] = ":" /\ s[e + 1] \in TokenChars

\* position i of line s begins an occurrence @k that is not grouped
IsBareOccurrence(s, i, k) ==
  /\ s[i] = "@"
  /\ ~IsGroupedOccurrence(s, i)
  /\ Slice(s, i + 1, RunEnd(s, i + 1, TokenChars)) = k

\* the key g:l of the grouped occurrence at i
GroupedKeyAt(s, i) ==
  LET e == RunEnd(s, i + 1, TokenChars) IN
  Slice(s, i + 1, RunEnd(s, e + 1, TokenChars))

C19_GroupedTakesPrecedence ==
  LET lines == CollectedLines IN
  /\ \A n \in 1..Len(lines) : \A i \in 1..Len(lines[n]) :
       IsGroupedOccurrence(lines[n], i) =>
         GroupedKeyAt(lines[n], i) \in DOMAIN label_map
  /\ \A k \in BareKeys(label_map) :
       \E n \in 1..Len(lines) : \E i \in 1..Len(lines[n]) :
         IsBareOccurrence(lines[n], i, k)
  /\ global_counter = 1 + Cardinality(BareKeys(label_map))

\* a grouped key is registered whose group is not a bare key, next to a
\* bare key
C19_Witness ==
  /\ pc # "collect"
  /\ global_counter = 2
  /\ \E k \in DOMAIN label_map :
       /\ IsGroupedKey(k)
       /\ GroupOfKey(k) \notin DOMAIN label_map

(***************************************************************************)
(* C20.  collect_labels called on the units U1, ..., Un one after another  *)
(* on the same processor leaves the registry (keys, numbers, counters)     *)
(* that one collect_labels call on U1 ++ ... ++ Un leaves.                 *)
(***************************************************************************)
C20_CollectByUnitIsCollectOnConcatenation ==
  mode = "notebook" =>
    /\ label_map = collect_labels(ResetRegistry, CollectedLines).label_map
    /\ group_counters = collect_labels(ResetRegistry, CollectedLines).group_counters
    /\ global_counter = collect_labels(ResetRegistry, CollectedLines).global_counter

\* two markdown cells were collected, each declaring a key the other does
\* not declare
C20_Witness ==
  /\ mode = "notebook" /\ pc # "collect"
  /\ \E j1 \in MarkdownCells(loaded) : \E j2 \in MarkdownCells(loaded) :
       /\ j1 < j2
       /\ DeclaredKeys(UnitLines_(j1)) \ DeclaredKeys(UnitLines_(j2)) # {}
       /\ DeclaredKeys(UnitLines_(j2)) \ DeclaredKeys(UnitLines_(j1)) # {}

(***************************************************************************)
(* C21.  Within pass 1 the order in which the units are visited does not   *)
(* affect the registry: whatever the order of the collect_labels calls on  *)
(* the units, the same key-to-number mapping results.                      *)
(* C21_OrderKeepsMapping states the claim as worded, and the program       *)
(* violates it.  C21_OrderKeepsKeysAndCounters is the amended statement:   *)
(* the visiting order does not affect which keys are registered nor the    *)
(* counters; the numbers follow the order of first declaration.            *)
(***************************************************************************)
\* collect_labels called on each of the units, one after another
RECURSIVE CollectUnits(_, _)
CollectUnits(reg, units) ==
  IF units = <<>> THEN reg
  ELSE CollectUnits(collect_labels(reg, Head(units)), Tail(units))

\* the visiting orders of n units
Orders(n) ==
  {f \in [1..n -> 1..n] : \A i \in 1..n : \A j \in 1..n : f[i] = f[j] => i = j}

\* the caller made collect_labels calls only, on a new processor
OnlyCollected ==
  /\ mode = "api" /\ calls # <<>>
  /\ \A n \in 1..Len(calls) : calls[n].op = "collect_labels"

\* the units in the visiting order f
Visited(f) == [n \in 1..Len(calls) |-> calls[f[n]].lines]

C21_OrderKeepsMapping ==
  OnlyCollected =>
    \A f \in Orders(Len(calls)) :
      CollectUnits(ResetRegistry, Visited(f)).label_map = label_map

C21_OrderKeepsKeysAndCounters ==
  OnlyCollected =>
    \A f \in Orders(Len(calls)) :
      LET reg == CollectUnits(ResetRegistry, Visited(f)) IN
      /\ DOMAIN reg.label_map = DOMAIN label_map
      /\ reg.group_counters = group_counters
      /\ reg.global_counter = global_counter

\* two units were collected that declare different keys of one scope
C21_Witness ==
  /\ OnlyCollected /\ Len(calls) = 2
  /\ BareKeys(collect_labels(ResetRegistry, calls[1].lines).label_map)
       # BareKeys(collect_labels(ResetRegistry, calls[2].lines).label_map)
  /\ global_counter >= 3

(***************************************************************************)
(* C22.  Pass 1 and pass 2 recognise the same declaration occurrences:     *)
(* every declaration occurrence of a line that collect_labels registers is *)
(* replaced by replace with the number of its key, and replace replaces no *)
(* other "@" text of the line as a declaration.                            *)
(* Stated as the claim words it; the program violates it.                  *)
(***************************************************************************)
\* the log is that of the call the registry of the state was used by
LogIsCurrent ==
  mode = "api" =>
    /\ calls # <<>>
    /\ calls[Len(calls)].op \in {"replace", "process_markdown"}

\* the event of a declaration sweep at position p replaced key k by its number
ReplacedAt(events, p, k) ==
  \E e \in Range(events) :
    /\ e.at = p /\ e.key = k /\ e.found
    /\ IsNumeralPadded(e.repl, label_map[k])

C22_PassesAgreeOnDeclarations ==
  LogIsCurrent =>
    \A n \in 1..Len(log) :
      LET rec == log[n]
          gs == FindIter("grouped", rec.input)
          bs == FindIter("collect_global", rec.input) IN
      /\ \A o \in Range(gs) :
           o.key \in DOMAIN label_map => ReplacedAt(rec.grouped, o.at, o.key)
      /\ \A o \in Range(bs) :
           o.key \in DOMAIN label_map =>
             ReplacedAt(rec.global, Moved(rec.grouped, o.at), o.key)
      /\ \A e \in Range(rec.grouped) :
           e.found => \E o \in Range(gs) : o.at = e.at /\ o.key = e.key
      /\ \A e \in Range(rec.global) :
           e.found => \E o \in Range(bs) :
                        Moved(rec.grouped, o.at) = e.at /\ o.key = e.key

(***************************************************************************)
(* C23.  The sweeps of replace are independent: what a declaration sweep   *)
(* inserted is never matched by a later sweep of the same line.  Every     *)
(* match of the reference sweep is a reference occurrence of the original  *)
(* line, with the same key, and every match of the global-label sweep is   *)
(* "@" text of the original line.                                          *)
(* Stated as the claim words it; the program violates it.                  *)
(***************************************************************************)
C23_SweepsIndependent ==
  \A n \in 1..Len(log) :
    LET rec == log[n] IN
    /\ \A e \in Range(rec.reference) :
         \E o \in Range(ReferencesOf(rec.input)) :
           AfterDeclarations(rec, o.at) = e.at /\ o.key = e.key
    /\ \A e \in Range(rec.global) :
         \E p \in 1..Len(rec.input) :
           /\ Moved(rec.grouped, p) = e.at
           /\ ReplaceGlobalAt(rec.input, p).end # 0
           /\ ReplaceGlobalAt(rec.input, p).key = e.key

(***************************************************************************)
(* C24.  In the single-file variants replace_references reports each       *)
(* unresolved reference occurrence exactly once: the entries of the error  *)
(* (one warning is printed with each entry) are the unresolved             *)
(* occurrences of the lines it was given, one entry each, so the count of  *)
(* the summary is the number of unresolved occurrences.                    *)
(* Stated as the claim words it; the program violates it.                  *)
(***************************************************************************)
C24_ReportedOnce ==
  (mode = "legacy" /\ pc \in {"failed", "write", "done"}) =>
    error = UnresolvedOccurrences([n \in 1..Len(log) |-> log[n].input])

(***************************************************************************)
(* C25.  The table-row test of the substitution pass agrees with its       *)
(* definition on every line: a line is taken for a table row if and only   *)
(* if, trimmed of leading and trailing whitespace, it starts with "|",     *)
(* ends with "|" and has a character that is no whitespace between these   *)
(* two bars; the test is made on the original text of the line.            *)
(***************************************************************************)
\* the line without its leading and trailing whitespace
Trimmed(s) ==
  LET inked == {k \in 1..Len(s) : s[k] \notin SpaceChars} IN
  IF inked = {} THEN <<>>
  ELSE SubSeq(s, CHOOSE a \in inked : \A k \in inked : a <= k,
                 CHOOSE b \in inked : \A k \in inked : k <= b)

IsTableRow(s) ==
  LET t == Trimmed(s) IN
  /\ Len(t) >= 2
  /\ t[1] = "|" /\ t[Len(t)] = "|"
  /\ \E k \in 2..(Len(t) - 1) : t[k] \notin SpaceChars

C25_TableTestAgrees ==
  \A n \in 1..Len(log) : log[n].inside_table = IsTableRow(log[n].input)

\* a line with whitespace before or after its bars was taken for a table
\* row, and a substitution was made in it
C25_Witness ==
  \E n \in 1..Len(log) :
    /\ log[n].input # Trimmed(log[n].input)
    /\ log[n].inside_table
    /\ log[n].output # log[n].input

(***************************************************************************)
(* C26.  process_notebook leaves the source of a markdown unit whose lines *)
(* hold no declaration and no reference exactly as it was, in the list     *)
(* form and in the string form, also when the unit has no line and when    *)
(* its source ends with a newline: the run goes past the unit and the      *)
(* unit's source stays what was loaded.                                    *)
(* Stated as the claim words it; the program violates it.                  *)
(***************************************************************************)
\* the lines of markdown cell j hold nothing for replace to match
IsPlainCell(j) ==
  \A l \in Range(extract_lines(loaded[j])) :
    /\ FindIter("grouped", l) = <<>>
    /\ FindIter("global", l) = <<>>
    /\ FindIter("reference", l) = <<>>

C26_PlainUnitUnchanged ==
  mode = "notebook" =>
    \A j \in MarkdownCells(loaded) :
      IsPlainCell(j) =>
        /\ notebook_json[j] = loaded[j]
        /\ ~(pc = "crashed" /\ cell = j)

====
